---- MODULE Spec2Model ----
(***************************************************************************)
(* Model of the LearningDashboard component                                *)
(* (src/components/LearningDashboard/page.tsx): the snapshot sequence, the *)
(* analytics memo computed from it, and the handlers that change it.       *)
(***************************************************************************)
EXTENDS Integers, Sequences, FiniteSets, TLC

VARIABLES
  snapshots,      \* useState<Snapshot[]>
  data,           \* useState<ExcelRow[]>: the flattened rows
  analytics,      \* the useMemo over snapshots
  importSummary,  \* useState: the banner, or Null
  timerRef,       \* importSummaryTimerRef.current
  timers,         \* the ids of the pending window.setTimeout callbacks
  storage,        \* localStorage: the two keys of the dashboard
  imports,        \* the handleFileImport calls suspended at an await
  queued,         \* the state update queued by the load effect
  pc,             \* where the component is in its life cycle
  started,        \* the number of handleFileImport calls so far
  lastOp,         \* the last import commit or delete, and the snapshots it
                  \* found; NoOp after any other step
  csv             \* the last CSV export: the modal state it was made from
                  \* and its rows

vars == <<snapshots, data, analytics, importSummary, timerRef, timers, storage,
          imports, queued, pc, started, lastOp, csv>>

(***************************************************************************)
(* Values                                                                  *)
(***************************************************************************)

\* `number | null` and `Analytics | null`: null is the empty tuple, a value
\* v is the one-element tuple <<v>>.
Null == <<>>
Some(v) == <<v>>

\* An ExcelRow after normalizeRow: numeric id and completion, trimmed text.
\* obj is the identity of the row object: the import that created it, the
\* position of its file in the selection and of the row in the file.
Row(id, first, pct) ==
  [id |-> id, first |-> first, last |-> "L", email |-> first, district |-> "D",
   title |-> "Math", status |-> "S", pct |-> pct, obj |-> <<0, 0, 0>>]

\* The report files the imports draw from (name and decoded rows).
ReportA == [name |-> "A", rows |-> <<Row(1, "Alice", 40), Row(2, "Bob", 100)>>]
ReportB == [name |-> "B", rows |-> <<Row(1, "Alice", 60), Row(2, "Bob", 100)>>]
ReportC == [name |-> "C", rows |-> <<Row(1, "Alice", 80), Row(3, "Carol", 0)>>]
ReportD == [name |-> "D", rows |-> <<Row(2, "Bobby", 50), Row(1, "Alice", 50), Row(2, "Bob", 51)>>]
ReportE == [name |-> "", rows |-> <<>>]

Reports == {ReportA, ReportB, ReportC, ReportD, ReportE}

\* Longest snapshot sequence the analytics are computed for.
MaxSnaps == 5

SnapshotSeqs == UNION {[1..n -> Reports] : n \in 0..MaxSnaps}

\* The rows of a generated report: two learners, completions below 0, at
\* the bucket limits, with halves in their means, and above 100.
Pcts == {0 - 10, 0, 1, 2, 3, 50, 51, 100, 150}
GenRows == {Row(1, "Alice", c) : c \in Pcts} \cup {Row(2, "Bob", c) : c \in Pcts}

\* Most rows of a generated report.
MaxRows == 2

\* The generated reports, alone, after ReportC and before ReportC.
GenReports == {[name |-> "", rows |-> rs] : rs \in UNION {[1..n -> GenRows] : n \in 0..MaxRows}}
RowSnapshotSeqs ==
  {<<g>> : g \in GenReports} \cup {<<ReportC, g>> : g \in GenReports}
    \cup {<<g, ReportC>> : g \in GenReports}

(***************************************************************************)
(* Helpers for JavaScript arrays, objects and numbers                      *)
(***************************************************************************)

Max(a, b) == IF a >= b THEN a ELSE b

\* arr.map(f)
MapSeq(f(_), s) == [i \in 1..Len(s) |-> f(s[i])]

\* arr.filter(p)
RECURSIVE FilterSeq(_, _)
FilterSeq(p(_), s) ==
  IF s = <<>> THEN <<>>
  ELSE IF p(Head(s)) THEN <<Head(s)>> \o FilterSeq(p, Tail(s))
  ELSE FilterSeq(p, Tail(s))

\* arr.reduce((s, v) => s + v, 0)
RECURSIVE SumSeq(_)
SumSeq(s) == IF s = <<>> THEN 0 ELSE Head(s) + SumSeq(Tail(s))

\* arr.flatMap(x => x) on an array of arrays
RECURSIVE Flatten(_)
Flatten(ss) == IF ss = <<>> THEN <<>> ELSE Head(ss) \o Flatten(Tail(ss))

\* The elements of an array, as a set.
Range(s) == {s[i] : i \in 1..Len(s)}

\* Object.keys / Object.values order of an object with non-negative integer
\* keys: ascending numeric order.
RECURSIVE ObjectKeys(_)
ObjectKeys(S) ==
  IF S = {} THEN <<>>
  ELSE LET m == CHOOSE x \in S : \A y \in S : x <= y
       IN <<m>> \o ObjectKeys(S \ {m})

\* new Set(arr): iteration order is first insertion.
RECURSIVE NewSet(_)
NewSet(s) ==
  IF s = <<>> THEN <<>>
  ELSE LET init == NewSet(SubSeq(s, 1, Len(s) - 1))
           x == s[Len(s)]
       IN IF x \in Range(init) THEN init ELSE Append(init, x)

\* The value that stands for the non-finite result of a division by 0; no
\* completion, sum or average of the model comes near it.
NaN == 0 - 1000000

\* Faulty variant of MathRound: the quotient is truncated downwards.
MathFloor(total, n) ==
  IF n = 0 THEN NaN ELSE total \div n

\* Math.round(total / n): the nearest integer, halves go up; not a finite
\* number when n is 0.
MathRound(total, n) ==
  IF n = 0 THEN NaN ELSE (2 * total + n) \div (2 * n)

\* Math.round(total / Math.max(1, count))
RoundDiv(total, count) == MathRound(total, Max(1, count))

\* parseFloat(String(row['Curriculum Completion Percentage'])) || 0 : the
\* rows are normalized, so the cell is a finite number and parses to itself.
Completion(r) == IF r.pct = 0 THEN 0 ELSE r.pct

\* arr.find(p): <<first match>> or Null
Find(p(_), s) ==
  LET hits == FilterSeq(p, s) IN IF hits = <<>> THEN Null ELSE Some(hits[1])

(***************************************************************************)
(* The analytics memo (useMemo over `snapshots`)                           *)
(***************************************************************************)

\* The rows of one learner, in row order.
RowsOf(arr, id) == FilterSeq(LAMBDA r : r.id = id, arr)

\* The distinct ids of an array of rows.
IdsOf(arr) == {arr[i].id : i \in 1..Len(arr)}

\* avgMap(arr): learner id -> rounded mean of the learner's rows.
avgMap(arr) ==
  [id \in IdsOf(arr) |->
     RoundDiv(SumSeq(MapSeq(Completion, RowsOf(arr, id))), Len(RowsOf(arr, id)))]

\* Faulty variant of OrZero: an absent learner counts as below every average.
OrBelowZero(m, id) == IF id \in DOMAIN m THEN m[id] ELSE 0 - 1

\* map[id] ?? 0
OrZero(m, id) == IF id \in DOMAIN m THEN m[id] ELSE 0

\* map[id] ?? null
OrNull(m, id) == IF id \in DOMAIN m THEN Some(m[id]) ELSE Null

\* A Course built from a row.
CourseOf(r) == [title |-> r.title, completion |-> Completion(r), status |-> r.status]

IsCompleted(c) == c.completion >= 100

\* Faulty variant of IsInProgress: a completion of exactly 1 is left out.
IsInProgressAboveOne(c) == c.completion > 1 /\ c.completion < 100

IsInProgress(c) == c.completion >= 1 /\ c.completion < 100

\* The level tag of a Learner Record.
Level(completed) ==
  IF completed >= 3 THEN "Advanced"
  ELSE IF completed >= 1 THEN "Intermediate" ELSE "Beginner"

\* learnerProgress[userId] after last.forEach, then the map of `learners`:
\* the first row of the id seeds name, email and district; every row of the
\* id adds a course, its completion and one bucket count.
LearnerOf(last, id) ==
  LET rows == RowsOf(last, id)
      courses == MapSeq(CourseOf, rows)
      total == SumSeq(MapSeq(Completion, rows))
      completed == Len(FilterSeq(IsCompleted, courses))
      inProgress == Len(FilterSeq(LAMBDA c : ~IsCompleted(c) /\ IsInProgress(c), courses))
  IN [id |-> id,
      name |-> <<rows[1].first, rows[1].last>>,
      email |-> rows[1].email,
      district |-> rows[1].district,
      courses |-> courses,
      totalCompletion |-> total,
      completed |-> completed,
      inProgress |-> inProgress,
      notStarted |-> Len(courses) - completed - inProgress,
      avgCompletion |-> IF Len(courses) > 0 THEN MathRound(total, Len(courses)) ELSE 0,
      level |-> Level(completed),
      week1Avg |-> Null,
      week2Avg |-> Null,
      recentAvgs |-> Null]

\* Faulty variant of Learners: one record per row, rows of an id not merged.
LearnersPerRow(last) == MapSeq(LAMBDA r : LearnerOf(last, r.id), last)

\* learners: Object.values(learnerProgress), one record per id of the last
\* snapshot.
Learners(last) == MapSeq(LAMBDA id : LearnerOf(last, id), ObjectKeys(IdsOf(last)))

\* The ids the comparison loop visits: new Set over the keys of the average
\* maps of every snapshot.
AllIds(snaps) ==
  NewSet(Flatten(MapSeq(LAMBDA s : ObjectKeys(DOMAIN avgMap(s.rows)), snaps)))

\* Faulty variant of RecentAvgs: the window holds the last 5 snapshots.
RecentAvgsWindow5(snaps, id) ==
  LET startIdx == Max(0, Len(snaps) - 5)
  IN [k \in 1..(Len(snaps) - startIdx) |-> OrNull(avgMap(snaps[startIdx + k].rows), id)]

\* Faulty variant of RecentAvgs: the window is listed newest first.
RecentAvgsNewestFirst(snaps, id) ==
  LET n == Len(snaps) - Max(0, Len(snaps) - 4)
  IN [k \in 1..n |-> OrNull(avgMap(snaps[Len(snaps) + 1 - k].rows), id)]

\* recentAvgs: the averages of the last up-to-4 snapshots, oldest first.
RecentAvgs(snaps, id) ==
  LET startIdx == Max(0, Len(snaps) - 4)
  IN [k \in 1..(Len(snaps) - startIdx) |-> OrNull(avgMap(snaps[startIdx + k].rows), id)]

\* Faulty variant of findRowAcrossSnapshots: the oldest snapshot first.
findRowOldestFirst(snaps, searchId) ==
  LET with == {i \in 1..Len(snaps) : searchId \in IdsOf(snaps[i].rows)}
  IN IF with = {} THEN Null
     ELSE Find(LAMBDA rr : rr.id = searchId,
               snaps[CHOOSE i \in with : \A j \in with : i <= j].rows)

\* findRowAcrossSnapshots(searchId): newest snapshot first.
RECURSIVE findRowAcrossSnapshots(_, _)
findRowAcrossSnapshots(snaps, searchId) ==
  IF snaps = <<>> THEN Null
  ELSE LET r == Find(LAMBDA rr : rr.id = searchId, snaps[Len(snaps)].rows)
       IN IF r # Null THEN r
          ELSE findRowAcrossSnapshots(SubSeq(snaps, 1, Len(snaps) - 1), searchId)

\* Faulty variant of Classify: a regression is filed under support.
ClassifyRegressAsSupport(v1, v2) ==
  IF v1 < v2 THEN "improved" ELSE "support"

\* The branch the comparison takes for a pair of averages.
Classify(v1, v2) ==
  IF v1 < v2 THEN "improved" ELSE IF v1 = v2 THEN "support" ELSE "none"

\* Faulty variant of Enriched: avgCompletion is set to the previous average.
EnrichedKeepsPrevious(snaps, id) ==
  LET N == Len(snaps)
      snap1 == snaps[N - 1].rows
      snap2 == snaps[N].rows
      v1 == OrZero(avgMap(snap1), id)
      v2 == OrZero(avgMap(snap2), id)
      recentAvgs == RecentAvgs(snaps, id)
      existing == Find(LAMBDA l : l.id = id, Learners(snap2))
      rowSource == findRowAcrossSnapshots(snaps, id)
      courses == MapSeq(CourseOf, RowsOf(snap2, id) \o RowsOf(snap1, id))
  IN IF existing # Null
     THEN [existing[1] EXCEPT !.week1Avg = Some(v1), !.week2Avg = Some(v2),
                              !.avgCompletion = v1, !.recentAvgs = recentAvgs]
     ELSE [id |-> id,
           name |-> IF rowSource # Null THEN <<rowSource[1].first, rowSource[1].last>>
                    ELSE <<id>>,
           email |-> IF rowSource # Null THEN rowSource[1].email ELSE "",
           district |-> IF rowSource # Null THEN rowSource[1].district ELSE "",
           courses |-> courses,
           totalCompletion |-> SumSeq(MapSeq(LAMBDA c : c.completion, courses)),
           completed |-> Len(FilterSeq(IsCompleted, courses)),
           inProgress |-> Len(FilterSeq(IsInProgress, courses)),
           notStarted |-> Len(FilterSeq(LAMBDA c : c.completion < 1, courses)),
           avgCompletion |-> v1,
           week1Avg |-> Some(v1),
           week2Avg |-> Some(v2),
           level |-> "",
           recentAvgs |-> recentAvgs]

\* The record the comparison loop builds for one id: the last-snapshot
\* learner when there is one, else a record synthesized from the rows of
\* the current and the previous snapshot.
Enriched(snaps, id) ==
  LET N == Len(snaps)
      snap1 == snaps[N - 1].rows
      snap2 == snaps[N].rows
      v1 == OrZero(avgMap(snap1), id)
      v2 == OrZero(avgMap(snap2), id)
      recentAvgs == RecentAvgs(snaps, id)
      existing == Find(LAMBDA l : l.id = id, Learners(snap2))
      rowSource == findRowAcrossSnapshots(snaps, id)
      courses == MapSeq(CourseOf, RowsOf(snap2, id) \o RowsOf(snap1, id))
  IN IF existing # Null
     THEN [existing[1] EXCEPT !.week1Avg = Some(v1), !.week2Avg = Some(v2),
                              !.avgCompletion = v2, !.recentAvgs = recentAvgs]
     ELSE [id |-> id,
           name |-> IF rowSource # Null THEN <<rowSource[1].first, rowSource[1].last>>
                    ELSE <<id>>,
           email |-> IF rowSource # Null THEN rowSource[1].email ELSE "",
           district |-> IF rowSource # Null THEN rowSource[1].district ELSE "",
           courses |-> courses,
           totalCompletion |-> SumSeq(MapSeq(LAMBDA c : c.completion, courses)),
           completed |-> Len(FilterSeq(IsCompleted, courses)),
           inProgress |-> Len(FilterSeq(IsInProgress, courses)),
           notStarted |-> Len(FilterSeq(LAMBDA c : c.completion < 1, courses)),
           avgCompletion |-> v2,
           week1Avg |-> Some(v1),
           week2Avg |-> Some(v2),
           level |-> "",
           recentAvgs |-> recentAvgs]

\* Faulty variant of ComparedList: the support branch is a second `if (v1 <= v2)`
\* instead of the `else if (v1 === v2)`.
ComparedListSecondIf(snaps, branch) ==
  IF Len(snaps) >= 2
  THEN FilterSeq(LAMBDA e : IF branch = "improved" THEN e.week1Avg[1] < e.week2Avg[1]
                            ELSE e.week1Avg[1] <= e.week2Avg[1],
                 MapSeq(LAMBDA id : Enriched(snaps, id), AllIds(snaps)))
  ELSE <<>>

\* The list the comparison loop fills for one branch; empty with fewer than
\* 2 snapshots.
ComparedList(snaps, branch) ==
  IF Len(snaps) >= 2
  THEN FilterSeq(LAMBDA e : Classify(e.week1Avg[1], e.week2Avg[1]) = branch,
                 MapSeq(LAMBDA id : Enriched(snaps, id), AllIds(snaps)))
  ELSE <<>>

\* Faulty variant of Count100: only the two most recent snapshots are counted.
Count100LastTwo(snaps, id) ==
  Cardinality({i \in 1..Len(snaps) :
                 i >= Len(snaps) - 1 /\ OrZero(avgMap(snaps[i].rows), id) >= 100})

\* count100 of one learner: the snapshots in which the average is >= 100.
Count100(snaps, id) ==
  Cardinality({i \in 1..Len(snaps) : OrZero(avgMap(snaps[i].rows), id) >= 100})

\* Faulty variant of Finished: one snapshot at 100 is enough.
FinishedOnce(snaps) ==
  FilterSeq(LAMBDA l : Count100(snaps, l.id) >= 1, Learners(snaps[Len(snaps)].rows))

\* finishedStudents (and consistentCompleters): copies of the last-snapshot
\* learners with count100 >= 2.
Finished(snaps) ==
  FilterSeq(LAMBDA l : Count100(snaps, l.id) >= 2, Learners(snaps[Len(snaps)].rows))

\* Faulty variant of ExcludeFinished: the filter is skipped.
ExcludeFinishedSkipped(supportList, finishedStudents) == supportList

\* supportList after the finished learners are filtered out of it.
ExcludeFinished(supportList, finishedStudents) ==
  IF Len(finishedStudents) > 0
  THEN FilterSeq(LAMBDA s : s.id \notin {finishedStudents[i].id : i \in 1..Len(finishedStudents)},
                 supportList)
  ELSE supportList

\* Faulty variant of PeriodSummary: the buckets count courses, not learners.
PeriodSummaryPerCourse(snap, idx) ==
  LET m == avgMap(snap.rows)
      learnerAvgs == MapSeq(LAMBDA id : m[id], ObjectKeys(DOMAIN m))
      pcts == MapSeq(Completion, snap.rows)
      completed == Len(FilterSeq(LAMBDA a : a >= 100, pcts))
      inProgress == Len(FilterSeq(LAMBDA a : ~(a >= 100) /\ a >= 1 /\ a < 100, pcts))
  IN [month |-> IF snap.name # "" THEN snap.name ELSE "Week " \o ToString(idx),
      learners |-> Len(learnerAvgs),
      avg |-> IF Len(learnerAvgs) > 0 THEN MathRound(SumSeq(learnerAvgs), Len(learnerAvgs))
              ELSE 0,
      completed |-> completed,
      inProgress |-> inProgress,
      notStarted |-> Len(pcts) - completed - inProgress]

\* One Period Summary.
PeriodSummary(snap, idx) ==
  LET m == avgMap(snap.rows)
      learnerAvgs == MapSeq(LAMBDA id : m[id], ObjectKeys(DOMAIN m))
      completed == Len(FilterSeq(LAMBDA a : a >= 100, learnerAvgs))
      inProgress == Len(FilterSeq(LAMBDA a : ~(a >= 100) /\ a >= 1 /\ a < 100, learnerAvgs))
  IN [month |-> IF snap.name # "" THEN snap.name ELSE "Week " \o ToString(idx),
      learners |-> Len(learnerAvgs),
      avg |-> IF Len(learnerAvgs) > 0 THEN MathRound(SumSeq(learnerAvgs), Len(learnerAvgs))
              ELSE 0,
      completed |-> completed,
      inProgress |-> inProgress,
      notStarted |-> Len(learnerAvgs) - completed - inProgress]

\* Faulty variant of MonthlyData: the labels count from 0.
MonthlyDataFromZero(snaps) == [i \in 1..Len(snaps) |-> PeriodSummary(snaps[i], i - 1)]

\* monthlyData: one Period Summary per snapshot, labelled from 1.
MonthlyData(snaps) == [i \in 1..Len(snaps) |-> PeriodSummary(snaps[i], i)]

\* Faulty variant of FailedStudents: the in-progress condition is dropped.
FailedStudentsByAverage(learners) ==
  FilterSeq(LAMBDA l : l.avgCompletion < 25, learners)

\* failedStudents: badly behind with at least one course in progress.
FailedStudents(learners) ==
  FilterSeq(LAMBDA l : l.avgCompletion < 25 /\ l.inProgress > 0, learners)

\* Faulty variant of AverageCompletion: the mean is taken without the
\* learners.length > 0 test.
AverageCompletionUnguarded(learners) ==
  MathRound(SumSeq(MapSeq(LAMBDA l : l.avgCompletion, learners)), Len(learners))

\* Faulty variant of AverageCompletion: the mean is taken over all courses.
AverageCompletionOverCourses(learners) ==
  IF Len(learners) > 0
  THEN MathRound(SumSeq(MapSeq(LAMBDA l : l.totalCompletion, learners)),
                 SumSeq(MapSeq(LAMBDA l : Len(l.courses), learners)))
  ELSE 0

\* averageCompletion: the rounded mean of the learners' averages, 0 without
\* learners.
AverageCompletion(learners) ==
  IF Len(learners) > 0
  THEN MathRound(SumSeq(MapSeq(LAMBDA l : l.avgCompletion, learners)), Len(learners))
  ELSE 0

\* Faulty variant of NoSnapshots: a single snapshot counts as no data.
NoSnapshotsOrOne(snaps) == Len(snaps) <= 1

\* !snapshots || snapshots.length === 0
NoSnapshots(snaps) == Len(snaps) = 0

\* The value of the analytics memo for a snapshot sequence.
computeAnalytics(snaps) ==
  IF NoSnapshots(snaps) THEN Null
  ELSE
    LET last == snaps[Len(snaps)].rows
        learners == Learners(last)
        improvedList == ComparedList(snaps, "improved")
        supportList == ComparedList(snaps, "support")
        finishedStudents == Finished(snaps)
    IN Some([totalLearners |-> Cardinality(IdsOf(last)),
             improvedLearners |-> Len(improvedList),
             supportNeeded |-> supportList,
             improvedList |-> improvedList,
             supportList |-> ExcludeFinished(supportList, finishedStudents),
             failedStudents |-> FailedStudents(learners),
             finishedStudents |-> finishedStudents,
             consistentCompleters |-> finishedStudents,
             averageCompletion |-> AverageCompletion(learners),
             learners |-> learners,
             monthlyData |-> MonthlyData(snaps)])

(***************************************************************************)
(* SpecAnalytics: the memo applied to every bounded snapshot sequence      *)
(***************************************************************************)

NoOp == [kind |-> "none", before |-> <<>>, idx |-> 0, added |-> <<>>]

InitAnalytics ==
  /\ snapshots \in SnapshotSeqs
  /\ analytics = Null
  /\ pc = "input"
  /\ data = <<>>
  /\ importSummary = Null
  /\ timerRef = Null
  /\ timers = {}
  /\ storage = [snapshots |-> Null, data |-> Null]
  /\ imports = <<>>
  /\ queued = Null
  /\ started = 0
  /\ lastOp = NoOp
  /\ csv = Null

\* The render that evaluates the memo for the current snapshots.
Render ==
  /\ pc = "input"
  /\ analytics' = computeAnalytics(snapshots)
  /\ pc' = "rendered"
  /\ UNCHANGED <<csv, snapshots, data, importSummary, timerRef, timers, storage,
                 imports, queued, started, lastOp>>

NextAnalytics == Render

SpecAnalytics == InitAnalytics /\ [][NextAnalytics]_vars

\* arr.reverse()
Reverse(s) == [i \in 1..Len(s) |-> s[Len(s) + 1 - i]]

\* Faulty variant of Recompute: the memo reverses the snapshot array in place
\* before it reads it.
RecomputeOnReversed ==
  /\ pc = "rendered"
  /\ snapshots' = Reverse(snapshots)
  /\ analytics' = computeAnalytics(Reverse(snapshots))
  /\ pc' = "recomputed"
  /\ UNCHANGED <<csv, data, importSummary, timerRef, timers, storage,
                 imports, queued, started, lastOp>>

\* The memo function called once more for the same snapshots: it reads the
\* snapshots and builds its result from fresh objects, assigning to nothing
\* it was given.
Recompute ==
  /\ pc = "rendered"
  /\ analytics' = computeAnalytics(snapshots)
  /\ pc' = "recomputed"
  /\ UNCHANGED <<csv, snapshots, data, importSummary, timerRef, timers, storage,
                 imports, queued, started, lastOp>>

NextMemo == Render \/ Recompute

\* SpecMemo: the memo evaluated twice for every bounded snapshot sequence.
SpecMemo == InitAnalytics /\ [][NextMemo]_vars

\* SpecRows: the memo applied to one or two snapshots with generated rows.
InitRows ==
  /\ snapshots \in RowSnapshotSeqs
  /\ analytics = Null
  /\ pc = "input"
  /\ data = <<>>
  /\ importSummary = Null
  /\ timerRef = Null
  /\ timers = {}
  /\ storage = [snapshots |-> Null, data |-> Null]
  /\ imports = <<>>
  /\ queued = Null
  /\ started = 0
  /\ lastOp = NoOp
  /\ csv = Null

SpecRows == InitRows /\ [][NextAnalytics]_vars

(***************************************************************************)
(* The CSV export of the list modal                                        *)
(***************************************************************************)

\* The values of listModalType and of csvColumnsOption.
ModalTypes == {"improved", "support", "total", "average", "failed", "finished"}
ColumnsOptions == {"compact", "detailed"}

\* [...learners].sort((a, b) => b.avgCompletion - a.avgCompletion): a stable
\* sort, highest average first.
RECURSIVE SortByAvgDesc(_)
SortByAvgDesc(list) ==
  IF list = <<>> THEN <<>>
  ELSE LET sorted == SortByAvgDesc(SubSeq(list, 1, Len(list) - 1))
           x == list[Len(list)]
           k == Cardinality({i \in 1..Len(sorted) : sorted[i].avgCompletion >= x.avgCompletion})
       IN SubSeq(sorted, 1, k) \o <<x>> \o SubSeq(sorted, k + 1, Len(sorted))

\* The list the export takes for a modal type; it has no branch for the
\* 'finished' modal.
ExportSource(a, listModalType) ==
  CASE listModalType = "improved" -> a.improvedList
    [] listModalType = "support" -> a.supportList
    [] listModalType = "total" -> a.learners
    [] listModalType = "average" -> SortByAvgDesc(a.learners)
    [] listModalType = "failed" -> a.failedStudents
    [] OTHER -> <<>>

\* exportList: the selected learners of the list, or all without a selection.
ExportList(a, listModalType, selectedIds) ==
  IF a = Null THEN <<>>
  ELSE IF Cardinality(selectedIds) > 0
  THEN FilterSeq(LAMBDA l : l.id \in selectedIds, ExportSource(a[1], listModalType))
  ELSE ExportSource(a[1], listModalType)

\* recentNames: the names of the last up-to-4 snapshots, filled up to 4 with
\* `Report n`.
RecentNames(snaps) ==
  LET start == Max(0, Len(snaps) - 4)
  IN [i \in 1..4 |-> IF start + i <= Len(snaps) THEN snaps[start + i].name
                     ELSE "Report " \o ToString(start + i)]

\* obj[key] = val on an object kept as its <<key, value>> pairs in insertion
\* order: an existing key keeps its place and takes the new value.
Put(obj, key, val) ==
  IF \E i \in 1..Len(obj) : obj[i][1] = key
  THEN [i \in 1..Len(obj) |-> IF obj[i][1] = key THEN <<key, val>> ELSE obj[i]]
  ELSE Append(obj, <<key, val>>)

\* l.recentAvgs || []
RecentOf(l) == IF l.recentAvgs = Null THEN <<>> ELSE l.recentAvgs

\* The recent-report cells of a row: `n%`, or empty for a missing or null
\* entry.
RECURSIVE RecentCells(_, _, _)
RecentCells(l, recentNames, n) ==
  IF n = 0 THEN <<>>
  ELSE LET recent == RecentOf(l)
           val == IF n <= Len(recent) /\ recent[n] # Null
                  THEN ToString(recent[n][1]) \o "%" ELSE ""
       IN Put(RecentCells(l, recentNames, n - 1), recentNames[n], val)

\* first / last: the first and the last non-null entry of recentAvgs.
FirstKnown(recent) ==
  LET known == {i \in 1..Len(recent) : recent[i] # Null}
  IN IF known = {} THEN Null ELSE recent[CHOOSE i \in known : \A j \in known : i <= j]
LastKnown(recent) ==
  LET known == {i \in 1..Len(recent) : recent[i] # Null}
  IN IF known = {} THEN Null ELSE recent[CHOOSE i \in known : \A j \in known : i >= j]

\* rowBase['Δ']
DeltaCell(l) ==
  LET first == FirstKnown(RecentOf(l))
      last == LastKnown(RecentOf(l))
  IN IF first # Null /\ last # Null THEN ToString(last[1] - first[1]) \o "%" ELSE ""

\* One row of the export; the detailed columns are Null in compact mode.
ExportRow(l, recentNames, csvColumnsOption) ==
  [id |-> l.id, name |-> l.name, email |-> l.email,
   recent |-> RecentCells(l, recentNames, 4),
   delta |-> DeltaCell(l),
   detail |-> IF csvColumnsOption = "compact" THEN Null
              ELSE Some([district |-> l.district, level |-> l.level,
                         avgCompletion |-> ToString(l.avgCompletion) \o "%",
                         courses |-> l.courses])]

\* Longest snapshot sequence an export is made from.
MaxExportSnaps == 3

\* The selections of the list modal the exports are made with.
Selections == {{}, {1}}

InitExport ==
  /\ snapshots \in UNION {[1..n -> Reports] : n \in 1..MaxExportSnaps}
  /\ analytics = Null
  /\ pc = "input"
  /\ data = <<>>
  /\ importSummary = Null
  /\ timerRef = Null
  /\ timers = {}
  /\ storage = [snapshots |-> Null, data |-> Null]
  /\ imports = <<>>
  /\ queued = Null
  /\ started = 0
  /\ lastOp = NoOp
  /\ csv = Null

\* The Export CSV button: nothing is exported (an alert) for an empty list.
ExportCsv(listModalType, selectedIds, csvColumnsOption) ==
  /\ pc = "rendered"
  /\ LET exportList == ExportList(analytics, listModalType, selectedIds)
     IN /\ Len(exportList) > 0
        /\ csv' = Some([listModalType |-> listModalType, selectedIds |-> selectedIds,
                        csvColumnsOption |-> csvColumnsOption,
                        rows |-> MapSeq(LAMBDA l : ExportRow(l, RecentNames(snapshots),
                                                             csvColumnsOption),
                                        exportList)])
  /\ UNCHANGED <<snapshots, data, analytics, importSummary, timerRef, timers, storage,
                 imports, queued, pc, started, lastOp>>

NextExport ==
  \/ Render
  \/ \E t \in ModalTypes, sel \in Selections, opt \in ColumnsOptions : ExportCsv(t, sel, opt)

SpecExport == InitExport /\ [][NextExport]_vars

(***************************************************************************)
(* Ingestion: cells, normalizeRow, files                                   *)
(***************************************************************************)

\* A cell as XLSX or JSON.parse delivers it: a number, a string that spells
\* a number, or something that is no number (other text, a missing cell).
NumCell(n) == [t |-> "num", v |-> n]
StrCell(n) == [t |-> "str", v |-> n]
JunkCell == [t |-> "junk", v |-> 0]

\* Number(x): Null stands for NaN.
ToNumber(cell) == IF cell.t \in {"num", "str"} THEN Some(cell.v) ELSE Null

\* Number(x) || 0
NumberOrZero(cell) ==
  LET n == ToNumber(cell) IN IF n = Null \/ n = Some(0) THEN 0 ELSE n[1]

\* String(x ?? ''): a text cell is Some(string), or Null when missing.
TextOrEmpty(x) == IF x = Null THEN "" ELSE x[1]

RawRow(idCell, first, pctCell) ==
  [id |-> idCell, first |-> first, last |-> Some("L"), email |-> first,
   district |-> Some("D"), title |-> Some("Math"), status |-> Null, pct |-> pctCell]

\* normalizeRow(r): numeric id and completion, text fields as strings.
normalizeRow(r) ==
  [id |-> NumberOrZero(r.id),
   first |-> TextOrEmpty(r.first),
   last |-> TextOrEmpty(r.last),
   email |-> TextOrEmpty(r.email),
   district |-> TextOrEmpty(r.district),
   title |-> TextOrEmpty(r.title),
   status |-> TextOrEmpty(r.status),
   pct |-> NumberOrZero(r.pct),
   obj |-> <<0, 0, 0>>]

\* rows.map(normalizeRow): fresh row objects, for file f of import n (import
\* 0 is the load effect).
NormalizeRows(cells, n, f) ==
  [k \in 1..Len(cells) |-> [normalizeRow(cells[k]) EXCEPT !.obj = <<n, f, k>>]]

\* The files a user can select: name, whether reading and decoding succeed,
\* and the cells of the first sheet.
FileW1 == [name |-> [stem |-> "w1", ext |-> "csv"], ok |-> TRUE,
           cells |-> <<RawRow(NumCell(1), Some("Alice"), StrCell(40)),
                       RawRow(StrCell(2), Some("Bob"), NumCell(100))>>]
FileW2 == [name |-> [stem |-> "w2", ext |-> "xlsx"], ok |-> TRUE,
           cells |-> <<RawRow(NumCell(2), Null, NumCell(100)),
                       RawRow(JunkCell, Some("Zed"), JunkCell)>>]
FileBad == [name |-> [stem |-> "bad", ext |-> "xlsx"], ok |-> FALSE, cells |-> <<>>]

\* The selections a file input change event can carry.
FileLists == {<<FileW1, FileW2>>, <<FileW2, FileBad>>}

\* Most handleFileImport calls in one run of the component.
MaxImports == 2

\* file.name.replace(/\.[^.]+$/, ''), or `Report n` for an empty name.
BaseName(file, n) ==
  IF file.name.stem = "" /\ file.name.ext = "" THEN "Report " \o ToString(n)
  ELSE file.name.stem

(***************************************************************************)
(* Persistence: the save effect and the load effect                        *)
(***************************************************************************)

\* JSON.stringify of a row: the cells as numbers and strings, no identity.
RowToJson(r) ==
  [id |-> NumCell(r.id), first |-> Some(r.first), last |-> Some(r.last),
   email |-> Some(r.email), district |-> Some(r.district), title |-> Some(r.title),
   status |-> Some(r.status), pct |-> NumCell(r.pct)]

\* JSON.stringify(snapshots)
SnapshotsToJson(snaps) ==
  [fmt |-> "objects",
   items |-> MapSeq(LAMBDA sn : [name |-> Some(sn.name), rows |-> MapSeq(RowToJson, sn.rows)],
                     snaps)]

NoStorage == [snapshots |-> Null, data |-> Null]

\* Faulty variant of SaveEffect: nothing is removed for an empty sequence.
SaveEffectKeepsStale(snaps, st) ==
  IF Len(snaps) > 0
  THEN [st EXCEPT !.snapshots = Some(SnapshotsToJson(snaps))]
  ELSE st

\* The save effect, run after a render with a new `snapshots`.
SaveEffect(snaps, st) ==
  IF Len(snaps) > 0
  THEN [st EXCEPT !.snapshots = Some(SnapshotsToJson(snaps))]
  ELSE NoStorage

\* Faulty variant of LoadEffect: every legacy row becomes a snapshot of its own.
LoadEffectLegacyPerRow(st) ==
  IF st.snapshots # Null /\ Len(st.snapshots[1].items) > 0
  THEN LET parsed == st.snapshots[1].items
       IN IF st.snapshots[1].fmt = "arrays"
          THEN Some([i \in 1..Len(parsed) |->
                       [name |-> "Week " \o ToString(i),
                        rows |-> NormalizeRows(parsed[i], 0, i)]])
          ELSE Some([i \in 1..Len(parsed) |->
                       [name |-> IF parsed[i].name = Null THEN "Report" ELSE parsed[i].name[1],
                        rows |-> NormalizeRows(parsed[i].rows, 0, i)]])
  ELSE IF st.data # Null /\ Len(st.data[1]) > 0
  THEN Some([k \in 1..Len(st.data[1]) |->
               [name |-> "Week " \o ToString(k),
                rows |-> NormalizeRows(<<st.data[1][k]>>, 0, k)]])
  ELSE Null

\* The snapshots the load effect hands to setSnapshots, or Null when it sets
\* nothing: the snapshots key first (array of row arrays, or array of
\* {name, rows}), then the legacy flat row list.
LoadEffect(st) ==
  IF st.snapshots # Null /\ Len(st.snapshots[1].items) > 0
  THEN LET parsed == st.snapshots[1].items
       IN IF st.snapshots[1].fmt = "arrays"
          THEN Some([i \in 1..Len(parsed) |->
                       [name |-> "Week " \o ToString(i),
                        rows |-> NormalizeRows(parsed[i], 0, i)]])
          ELSE Some([i \in 1..Len(parsed) |->
                       [name |-> IF parsed[i].name = Null THEN "Report" ELSE parsed[i].name[1],
                        rows |-> NormalizeRows(parsed[i].rows, 0, i)]])
  ELSE IF st.data # Null /\ Len(st.data[1]) > 0
  THEN Some(<<[name |-> "Week 1", rows |-> NormalizeRows(st.data[1], 0, 1)]>>)
  ELSE Null

\* What localStorage may hold when the component mounts.
StoredLegacy == [snapshots |-> Null, data |-> Some(FileW1.cells)]

InitialStorages == {NoStorage, StoredLegacy}

(***************************************************************************)
(* The component: mount, import, delete, clear, banner                     *)
(***************************************************************************)

\* window.setTimeout: an id no pending timer and no held reference has.
SetTimeoutId ==
  LET used == timers \cup (IF timerRef = Null THEN {} ELSE {timerRef[1]})
  IN CHOOSE n \in 1..(Cardinality(used) + 1) :
       n \notin used /\ \A m \in 1..(n - 1) : m \in used

\* Faulty variant of RestartTimer: the previous timer is left pending.
RestartTimerKeepsPending ==
  LET id == SetTimeoutId
  IN /\ timers' = timers \cup {id}
     /\ timerRef' = Some(id)

\* if (ref.current) clearTimeout(ref.current); ref.current = setTimeout(..)
RestartTimer ==
  LET id == SetTimeoutId
  IN /\ timers' = (IF timerRef = Null THEN timers ELSE timers \ {timerRef[1]}) \cup {id}
     /\ timerRef' = Some(id)

RemoveAt(s, i) == SubSeq(s, 1, i - 1) \o SubSeq(s, i + 1, Len(s))

Init ==
  /\ snapshots = <<>>
  /\ data = <<>>
  /\ analytics = Null
  /\ importSummary = Null
  /\ timerRef = Null
  /\ timers = {}
  /\ storage \in InitialStorages
  /\ imports = <<>>
  /\ queued = Null
  /\ pc = "mount"
  /\ started = 0
  /\ lastOp = NoOp
  /\ csv = Null

\* The effects after the first render: the load effect queues the loaded
\* snapshots, then the save effect runs with the initial empty `snapshots`.
MountEffects ==
  /\ pc = "mount"
  /\ queued' = LoadEffect(storage)
  /\ storage' = SaveEffect(snapshots, storage)
  /\ pc' = "mounted"
  /\ lastOp' = NoOp
  /\ UNCHANGED <<csv, snapshots, data, analytics, importSummary, timerRef, timers,
                 imports, started>>

\* Faulty variant of MountRerender: no save effect follows the render.
MountRerenderWithoutSave ==
  /\ pc = "mounted"
  /\ IF queued # Null
     THEN /\ snapshots' = queued[1]
          /\ data' = Flatten(MapSeq(LAMBDA sn : sn.rows, queued[1]))
          /\ analytics' = computeAnalytics(queued[1])
          /\ storage' = storage
     ELSE UNCHANGED <<snapshots, data, analytics, storage>>
  /\ queued' = Null
  /\ pc' = "idle"
  /\ lastOp' = NoOp
  /\ UNCHANGED <<csv, importSummary, timerRef, timers, imports, started>>

\* The render of the queued update, followed by the save effect.
MountRerender ==
  /\ pc = "mounted"
  /\ IF queued # Null
     THEN /\ snapshots' = queued[1]
          /\ data' = Flatten(MapSeq(LAMBDA sn : sn.rows, queued[1]))
          /\ analytics' = computeAnalytics(queued[1])
          /\ storage' = SaveEffect(queued[1], storage)
     ELSE UNCHANGED <<snapshots, data, analytics, storage>>
  /\ queued' = Null
  /\ pc' = "idle"
  /\ lastOp' = NoOp
  /\ UNCHANGED <<csv, importSummary, timerRef, timers, imports, started>>

\* handleFileImport up to its first await: it copies the `snapshots` of the
\* render it was created in.
ImportBegin(fileList) ==
  /\ pc = "idle"
  /\ Len(fileList) > 0
  /\ started < MaxImports
  /\ started' = started + 1
  /\ imports' = Append(imports, [n |-> started + 1, files |-> fileList, base |-> snapshots,
                                 newSnapshots |-> snapshots, combinedRows |-> <<>>])
  /\ lastOp' = NoOp
  /\ UNCHANGED <<csv, snapshots, data, analytics, importSummary, timerRef, timers,
                 storage, queued, pc>>

\* The file the suspended import i is waiting for.
NextFile(imp) == imp.files[Len(imp.newSnapshots) - Len(imp.base) + 1]

\* The import after the awaited file is decoded and pushed.
AfterFile(imp) ==
  LET file == NextFile(imp)
      jsonData == NormalizeRows(file.cells, imp.n, Len(imp.newSnapshots) - Len(imp.base) + 1)
  IN [imp EXCEPT
        !.newSnapshots = Append(@, [name |-> BaseName(file, Len(@) + 1), rows |-> jsonData]),
        !.combinedRows = @ \o jsonData]

\* The import resumes with a file that is not its last one.
ImportRead(i) ==
  /\ i \in 1..Len(imports)
  /\ NextFile(imports[i]).ok
  /\ Len(AfterFile(imports[i]).newSnapshots) - Len(imports[i].base) < Len(imports[i].files)
  /\ imports' = [imports EXCEPT ![i] = AfterFile(imports[i])]
  /\ lastOp' = NoOp
  /\ UNCHANGED <<csv, snapshots, data, analytics, importSummary, timerRef, timers,
                 storage, queued, pc, started>>

\* The snapshots a finished import hands to setSnapshots.
Committed(imp) == imp.newSnapshots

\* The import resumes with its last file: it sets the snapshots, the
\* flattened rows and the banner, and restarts the banner timer; the
\* render that follows runs the save effect.
ImportCommit(i) ==
  /\ i \in 1..Len(imports)
  /\ NextFile(imports[i]).ok
  /\ LET imp == AfterFile(imports[i])
         newData == Flatten(MapSeq(LAMBDA sn : sn.rows, Committed(imp)))
     IN /\ Len(imp.newSnapshots) - Len(imp.base) = Len(imp.files)
        /\ snapshots' = Committed(imp)
        /\ data' = newData
        /\ importSummary' = Some([files |-> Len(imp.files),
                                  rowsAdded |-> Len(imp.combinedRows),
                                  totalRows |-> Len(newData)])
        /\ RestartTimer
        /\ analytics' = computeAnalytics(Committed(imp))
        /\ storage' = SaveEffect(Committed(imp), storage)
        /\ lastOp' = [kind |-> "import", before |-> snapshots, idx |-> 0,
                      added |-> SubSeq(imp.newSnapshots, Len(imp.base) + 1,
                                       Len(imp.newSnapshots))]
  /\ imports' = RemoveAt(imports, i)
  /\ UNCHANGED <<csv, queued, pc, started>>

\* Faulty variant of ImportFail: the snapshots read before the failure are kept.
ImportFailKeepsRead(i) ==
  /\ i \in 1..Len(imports)
  /\ ~NextFile(imports[i]).ok
  /\ snapshots' = imports[i].newSnapshots
  /\ data' = Flatten(MapSeq(LAMBDA sn : sn.rows, imports[i].newSnapshots))
  /\ analytics' = computeAnalytics(imports[i].newSnapshots)
  /\ storage' = SaveEffect(imports[i].newSnapshots, storage)
  /\ imports' = RemoveAt(imports, i)
  /\ lastOp' = NoOp
  /\ UNCHANGED <<csv, importSummary, timerRef, timers, queued, pc, started>>

\* Reading or decoding the awaited file throws: the catch block reports the
\* error and the import ends.
ImportFail(i) ==
  /\ i \in 1..Len(imports)
  /\ ~NextFile(imports[i]).ok
  /\ imports' = RemoveAt(imports, i)
  /\ lastOp' = NoOp
  /\ UNCHANGED <<csv, snapshots, data, analytics, importSummary, timerRef, timers,
                 storage, queued, pc, started>>

\* Faulty variant of DeleteFilter: the report is matched by name, not by position.
DeleteFilterByName(prev, idx) ==
  FilterSeq(LAMBDA sn : sn.name # prev[idx].name, prev)

\* prev.filter((_, i) => i !== idx)
DeleteFilter(prev, idx) ==
  LET keep == FilterSeq(LAMBDA i : i # idx, [i \in 1..Len(prev) |-> i])
  IN [k \in 1..Len(keep) |-> prev[keep[k]]]

\* The Delete button of report idx, confirmed.
DeleteReport(idx) ==
  /\ pc = "idle"
  /\ idx \in 1..Len(snapshots)
  /\ snapshots' = DeleteFilter(snapshots, idx)
  /\ data' = FilterSeq(LAMBDA row : row.obj \notin {snapshots[idx].rows[k].obj :
                                                      k \in 1..Len(snapshots[idx].rows)},
                       data)
  /\ analytics' = computeAnalytics(snapshots')
  /\ storage' = SaveEffect(snapshots', storage)
  /\ lastOp' = [kind |-> "delete", before |-> snapshots, idx |-> idx, added |-> <<>>]
  /\ UNCHANGED <<csv, importSummary, timerRef, timers, imports, queued, pc, started>>

\* The Clear Stored Data button.
ClearStoredData ==
  /\ pc = "idle"
  /\ data' = <<>>
  /\ snapshots' = <<>>
  /\ importSummary' = Some([files |-> 0, rowsAdded |-> 0, totalRows |-> 0])
  /\ RestartTimer
  /\ analytics' = computeAnalytics(<<>>)
  /\ storage' = SaveEffect(<<>>, NoStorage)
  /\ lastOp' = NoOp
  /\ UNCHANGED <<csv, imports, queued, pc, started>>

\* The dismiss button of the banner.
DismissSummary ==
  /\ pc = "idle"
  /\ importSummary # Null
  /\ importSummary' = Null
  /\ timers' = IF timerRef = Null THEN timers ELSE timers \ {timerRef[1]}
  /\ lastOp' = NoOp
  /\ UNCHANGED <<csv, snapshots, data, analytics, timerRef, storage, imports, queued, pc,
                 started>>

\* A banner timer fires.
TimerFires(t) ==
  /\ t \in timers
  /\ timers' = timers \ {t}
  /\ importSummary' = Null
  /\ lastOp' = NoOp
  /\ UNCHANGED <<csv, snapshots, data, analytics, timerRef, storage, imports, queued, pc,
                 started>>

Next ==
  \/ MountEffects
  \/ MountRerender
  \/ \E fileList \in FileLists : ImportBegin(fileList)
  \/ \E i \in 1..MaxImports : ImportRead(i)
  \/ \E i \in 1..MaxImports : ImportCommit(i)
  \/ \E i \in 1..MaxImports : ImportFail(i)
  \/ \E idx \in 1..Len(snapshots) : DeleteReport(idx)
  \/ ClearStoredData
  \/ DismissSummary
  \/ \E t \in timers : TimerFires(t)

Spec == Init /\ [][Next]_vars

\* A callback passed to window.setTimeout runs once its delay has elapsed,
\* unless window.clearTimeout cancelled it first.
SpecLive == Spec /\ WF_vars(\E t \in timers : TimerFires(t))

\* SpecLoad: the mount of the component over what the two storage keys can
\* hold. A stored list has at most MaxStored snapshots.
MaxStored == 2

\* Row lists as they are found in storage: decoded cells of an older
\* version, or rows this version saved.
StoredRowLists == {FileW1.cells, FileW2.cells, MapSeq(RowToJson, ReportD.rows)}

StoredObjects ==
  {[name |-> Some("A"), rows |-> FileW1.cells],
   [name |-> Null, rows |-> FileW2.cells],
   [name |-> Some("D"), rows |-> MapSeq(RowToJson, ReportD.rows)]}

LoadStorages ==
  {[snapshots |-> sn, data |-> d] :
     sn \in {Null}
           \cup {Some([fmt |-> "arrays", items |-> its]) :
                   its \in UNION {[1..n -> StoredRowLists] : n \in 0..MaxStored}}
           \cup {Some([fmt |-> "objects", items |-> its]) :
                   its \in UNION {[1..n -> StoredObjects] : n \in 0..MaxStored}},
     d \in {Null, Some(<<>>)} \cup {Some(rows) : rows \in StoredRowLists}}

InitLoad ==
  /\ snapshots = <<>>
  /\ data = <<>>
  /\ analytics = Null
  /\ importSummary = Null
  /\ timerRef = Null
  /\ timers = {}
  /\ storage \in LoadStorages
  /\ imports = <<>>
  /\ queued = Null
  /\ pc = "mount"
  /\ started = 0
  /\ lastOp = NoOp
  /\ csv = Null

NextLoad == MountEffects \/ MountRerender

SpecLoad == InitLoad /\ [][NextLoad]_vars

(***************************************************************************)
(* Properties of the analytics                                             *)
(***************************************************************************)

\* The analytics record of a rendered, non-empty snapshot sequence.
Rendered == pc = "rendered" /\ analytics # Null
A == analytics[1]

ListIds(list) == {list[i].id : i \in 1..Len(list)}

\* Every id with a row in some snapshot.
KnownIds == UNION {IdsOf(snapshots[i].rows) : i \in 1..Len(snapshots)}

Prev == snapshots[Len(snapshots) - 1]
Curr == snapshots[Len(snapshots)]

\* A learner's average in the second-to-last / the last snapshot.
V1(id) == OrZero(avgMap(Prev.rows), id)
V2(id) == OrZero(avgMap(Curr.rows), id)

\* C1: with at least 2 snapshots, every learner of improvedList has v1 < v2,
\* every learner of supportList has v1 = v2, a learner with v1 > v2 is in
\* neither list, and improvedLearners is the size of improvedList.
C1_Classification ==
  (Rendered /\ Len(snapshots) >= 2) =>
    /\ \A id \in ListIds(A.improvedList) : V1(id) < V2(id)
    /\ \A id \in ListIds(A.supportList) : V1(id) = V2(id)
    /\ \A id \in KnownIds :
         V1(id) > V2(id) => id \notin ListIds(A.improvedList) \cup ListIds(A.supportList)
    /\ A.improvedLearners = Len(A.improvedList)

\* C1 witness: a learner regressed from 80 to 50 and is in neither list,
\* while another learner improved and a third is unchanged.
C1_Witness ==
  /\ Rendered /\ Len(snapshots) >= 2
  /\ V1(1) = 80 /\ V2(1) = 50
  /\ 1 \notin ListIds(A.improvedList) \cup ListIds(A.supportList)
  /\ A.improvedList # <<>> /\ A.supportList # <<>>

\* C2: no id of finishedStudents is in supportList; for A (Alice 40, Bob
\* 100) then B (Alice 60, Bob 100): improvedList = [Alice], supportList = [],
\* Bob in finishedStudents.
C2_FinishedExclusion ==
  Rendered =>
    /\ ListIds(A.finishedStudents) \cap ListIds(A.supportList) = {}
    /\ snapshots = <<ReportA, ReportB>> =>
         /\ Len(A.improvedList) = 1
         /\ A.improvedList[1].id = 1 /\ A.improvedList[1].name = <<"Alice", "L">>
         /\ A.supportList = <<>>
         /\ 2 \in ListIds(A.finishedStudents)

\* C2 witness: the end-to-end scenario, where Bob (100 then 100) was put on
\* the support list by the comparison and taken off it by the filter.
C2_Witness ==
  /\ Rendered /\ snapshots = <<ReportA, ReportB>>
  /\ V1(2) = 100 /\ V2(2) = 100
  /\ 2 \in ListIds(A.finishedStudents)
  /\ 2 \notin ListIds(A.supportList)

\* C3: no id of finishedStudents is in the returned supportNeeded list (the
\* list the 'Need Support' card counts).
C3_SupportNeededExcludesFinished ==
  Rendered => ListIds(A.finishedStudents) \cap ListIds(A.supportNeeded) = {}

\* The snapshots (by index) in which a learner has rows averaging >= 100.
FullSnapshots(id) ==
  {i \in 1..Len(snapshots) :
     id \in IdsOf(snapshots[i].rows) /\ avgMap(snapshots[i].rows)[id] >= 100}

\* C4: finishedStudents and consistentCompleters hold the same learners:
\* exactly those of the last snapshot whose average is >= 100 in at least 2
\* snapshots of the whole sequence.
C4_FinishedDetection ==
  Rendered =>
    /\ A.finishedStudents = A.consistentCompleters
    /\ Cardinality(ListIds(A.finishedStudents)) = Len(A.finishedStudents)
    /\ ListIds(A.finishedStudents) =
         {id \in IdsOf(Curr.rows) : Cardinality(FullSnapshots(id)) >= 2}

\* C4 witness: 3 snapshots, a learner at 100 in the first and the third but
\* not the second is finished, and a learner of the last snapshot is not.
C4_Witness ==
  /\ Rendered /\ Len(snapshots) = 3
  /\ \E id \in ListIds(A.finishedStudents) : FullSnapshots(id) = {1, 3}
  /\ \E id \in IdsOf(Curr.rows) : id \notin ListIds(A.finishedStudents)

\* C5: no learner id is in both improvedList and supportList.
C5_Disjoint ==
  Rendered =>
    /\ ListIds(A.improvedList) \cap ListIds(A.supportList) = {}
    /\ ListIds(A.improvedList) \cap ListIds(A.supportNeeded) = {}

\* C5 witness: both lists are non-empty.
C5_Witness ==
  Rendered /\ A.improvedList # <<>> /\ A.supportList # <<>>

\* C6: every learner of improvedList or supportList has a row in the
\* previous or in the current snapshot.
C6_ComparisonRange ==
  (Rendered /\ Len(snapshots) >= 2) =>
    ListIds(A.improvedList) \cup ListIds(A.supportList)
      \subseteq IdsOf(Prev.rows) \cup IdsOf(Curr.rows)

\* The enriched learners of the result.
EnrichedLearners ==
  Range(A.improvedList) \cup Range(A.supportList) \cup Range(A.supportNeeded)

Min(a, b) == IF a <= b THEN a ELSE b

\* C7 (as stated): with at least 1 snapshot, recentAvgs of every enriched
\* learner has exactly 4 entries.
C7_AlwaysFourEntries ==
  (Rendered /\ Len(snapshots) >= 1) =>
    \A e \in EnrichedLearners : Len(e.recentAvgs) = 4

\* C7 (amended): recentAvgs of every enriched learner has exactly min(4, N)
\* entries, N the number of snapshots; nothing is padded.
C7_WindowLength ==
  Rendered =>
    \A e \in EnrichedLearners : Len(e.recentAvgs) = Min(4, Len(snapshots))

\* C7 witness: enriched learners exist with 2 snapshots, where the window
\* has 2 entries.
C7_Witness ==
  /\ Rendered /\ Len(snapshots) = 2
  /\ \E e \in EnrichedLearners : Len(e.recentAvgs) = 2

\* C8: recentAvgs of every learner of improvedList or supportList lists,
\* oldest first, the learner's average in the snapshots max(0, N-4) .. N-1
\* (0-based), null where the learner has no row.
C8_RecentWindow ==
  Rendered =>
    \A e \in Range(A.improvedList) \cup Range(A.supportList) :
      LET N == Len(snapshots)
          first == Max(0, N - 4)
      IN /\ DOMAIN e.recentAvgs = 1..(N - first)
         /\ \A k \in 1..(N - first) :
              LET rows == snapshots[first + k].rows
              IN e.recentAvgs[k] =
                   IF e.id \in IdsOf(rows) THEN <<avgMap(rows)[e.id]>> ELSE <<>>

\* C8 witness: 5 snapshots; a listed learner has 4 entries, one of them
\* null, whose first entry is the average of the second snapshot and differs
\* from the learner's average in the first.
C8_Witness ==
  /\ Rendered /\ Len(snapshots) = 5
  /\ \E e \in Range(A.improvedList) \cup Range(A.supportList) :
       /\ Len(e.recentAvgs) = 4
       /\ \E k \in 1..4 : e.recentAvgs[k] = Null
       /\ e.recentAvgs[1] # Null
       /\ e.recentAvgs[1] # OrNull(avgMap(snapshots[1].rows), e.id)
       /\ e.recentAvgs[1] # e.recentAvgs[4]

(***************************************************************************)
(* Properties of import and delete                                         *)
(***************************************************************************)

\* C9: a completed import appends one snapshot per file, in file order, to
\* the snapshot sequence as it stands when the result is committed; no
\* snapshot present at that moment is dropped or altered and no deleted one
\* reappears.
C9_ImportAppends ==
  lastOp.kind = "import" =>
    /\ snapshots = lastOp.before \o lastOp.added
    /\ Len(lastOp.added) >= 1

\* C10: a delete removes exactly the snapshot at its position and keeps the
\* others in order; the analytics are always those of the current snapshot
\* sequence, with one monthlyData entry per snapshot.
C10_DeleteAndRecompute ==
  /\ lastOp.kind = "delete" =>
       /\ Len(snapshots) = Len(lastOp.before) - 1
       /\ \A i \in 1..Len(snapshots) :
            snapshots[i] = lastOp.before[IF i < lastOp.idx THEN i ELSE i + 1]
  /\ pc = "idle" =>
       /\ (analytics = Null) <=> (snapshots = <<>>)
       /\ analytics # Null =>
            /\ Len(analytics[1].monthlyData) = Len(snapshots)
            /\ \A i \in 1..Len(snapshots) :
                 analytics[1].monthlyData[i] = PeriodSummary(snapshots[i], i)

\* C10 witness: the first of 3 differently named reports was deleted; the
\* two others remain and monthlyData has their two entries.
C10_Witness ==
  /\ lastOp.kind = "delete" /\ lastOp.idx = 1 /\ Len(lastOp.before) = 3
  /\ lastOp.before[1].name # lastOp.before[2].name
  /\ snapshots = <<lastOp.before[2], lastOp.before[3]>>
  /\ analytics # Null
  /\ Len(analytics[1].monthlyData) = 2
  /\ analytics[1].monthlyData[1].month = lastOp.before[2].name

(***************************************************************************)
(* Properties of persistence and of the shape of the analytics             *)
(***************************************************************************)

\* The content of a snapshot sequence: names and rows without the identity
\* of the row objects.
WithoutIdentity(snaps) ==
  [i \in 1..Len(snaps) |->
     [name |-> snaps[i].name,
      rows |-> [k \in 1..Len(snaps[i].rows) |->
                  [snaps[i].rows[k] EXCEPT !.obj = <<0, 0, 0>>]]]]

AnalyticsFields ==
  {"totalLearners", "improvedLearners", "supportNeeded", "improvedList", "supportList",
   "failedStudents", "finishedStudents", "consistentCompleters", "averageCompletion",
   "learners", "monthlyData"}

\* C12: the analytics result is null exactly when the snapshot sequence is
\* empty; every non-empty sequence gets a structure with all the fields.
C12_NullIffEmpty ==
  pc = "rendered" =>
    /\ (analytics = Null) <=> (Len(snapshots) = 0)
    /\ analytics # Null => DOMAIN analytics[1] = AnalyticsFields

\* C12 witness: a single snapshot without rows still gets a structure, with
\* no learners and one period summary.
C12_Witness ==
  /\ pc = "rendered" /\ snapshots = <<ReportE>>
  /\ analytics # Null
  /\ A.totalLearners = 0 /\ Len(A.monthlyData) = 1

\* Every Learner Record of the result, from whichever list.
AllRecords ==
  Range(A.learners) \cup Range(A.improvedList) \cup Range(A.supportList)
    \cup Range(A.supportNeeded) \cup Range(A.failedStudents)
    \cup Range(A.finishedStudents) \cup Range(A.consistentCompleters)

\* The optional averages of a record that are set.
KnownAverages(l) ==
  (IF l.week1Avg = Null THEN {} ELSE {l.week1Avg[1]})
    \cup (IF l.week2Avg = Null THEN {} ELSE {l.week2Avg[1]})
    \cup (IF l.recentAvgs = Null THEN {}
          ELSE {l.recentAvgs[k][1] : k \in {j \in 1..Len(l.recentAvgs) : l.recentAvgs[j] # Null}})

\* C13: the analytics computation is total: for snapshots with zero rows,
\* one or many rows per learner, duplicate ids and completions below 0 or
\* above 100 it ends with a full structure, and no number in it comes from a
\* division by zero.
C13_Total ==
  pc = "rendered" =>
    /\ analytics # Null
    /\ DOMAIN A = AnalyticsFields
    /\ A.averageCompletion # NaN
    /\ \A l \in AllRecords :
         l.avgCompletion # NaN /\ \A v \in KnownAverages(l) : v # NaN
    /\ \A i \in 1..Len(A.monthlyData) : A.monthlyData[i].avg # NaN

\* C13 witness: the last snapshot has no rows (no learners to average over)
\* after a snapshot with rows; the averages are 0.
C13_Witness ==
  /\ pc = "rendered" /\ analytics # Null
  /\ Len(snapshots) = 2 /\ Curr.rows = <<>> /\ Prev.rows # <<>>
  /\ A.averageCompletion = 0 /\ A.monthlyData[2].avg = 0
  /\ A.learners = <<>>

\* C14: with fewer than 2 snapshots improvedList, supportList,
\* finishedStudents and consistentCompleters are empty and improvedLearners
\* is 0.
C14_FewerThanTwo ==
  (Rendered /\ Len(snapshots) < 2) =>
    /\ A.improvedList = <<>> /\ A.supportList = <<>>
    /\ A.finishedStudents = <<>> /\ A.consistentCompleters = <<>>
    /\ A.improvedLearners = 0

\* C14 witness: a single snapshot in which a learner is at 100.
C14_Witness ==
  /\ Rendered /\ Len(snapshots) = 1
  /\ \E id \in IdsOf(Curr.rows) : V2(id) >= 100
  /\ A.finishedStudents = <<>> /\ A.improvedList = <<>>

(***************************************************************************)
(* Properties of the Learner Records and of the Period Summaries           *)
(***************************************************************************)

\* The completions of the courses of a record, and how many lie in a set.
Completions(l) == [k \in 1..Len(l.courses) |-> l.courses[k].completion]
CountIn(l, S) == Cardinality({k \in 1..Len(l.courses) : l.courses[k].completion \in S})

\* The completions the generated and the curated rows can carry.
CompletionRange == (0 - 10)..150

\* C15: in every Learner Record of the last snapshot and every record of
\* improvedList and supportList (synthesized ones included) completed counts
\* the courses at >= 100, inProgress those from 1 to below 100, notStarted
\* the others, so the three counts add up to the number of courses.
C15_BucketPartition ==
  Rendered =>
    \A l \in Range(A.learners) \cup Range(A.improvedList) \cup Range(A.supportList)
              \cup Range(A.supportNeeded) :
      /\ l.completed = CountIn(l, {c \in CompletionRange : c >= 100})
      /\ l.inProgress = CountIn(l, {c \in CompletionRange : c >= 1 /\ c < 100})
      /\ l.notStarted = CountIn(l, {c \in CompletionRange : c < 1})
      /\ l.completed + l.inProgress + l.notStarted = Len(l.courses)

\* C15 witness: a record synthesized for a learner absent from the last
\* snapshot, with one course in progress (at 1) and one not started.
C15_Witness ==
  /\ Rendered /\ Len(snapshots) = 2
  /\ \E l \in Range(A.improvedList) \cup Range(A.supportList) :
       /\ l.id \notin IdsOf(Curr.rows) /\ l.level = ""
       /\ Len(l.courses) = 2
       /\ l.inProgress = 1 /\ l.notStarted = 1
       /\ \E k \in 1..2 : l.courses[k].completion = 1

\* The positions of the rows of a learner in the last snapshot.
RowIndexes(id) == {k \in 1..Len(Curr.rows) : Curr.rows[k].id = id}

\* C16: learners has exactly one record per distinct id of the last
\* snapshot, each holding one course per row of that id, and totalLearners
\* is the number of those records.
C16_OneRecordPerId ==
  Rendered =>
    /\ ListIds(A.learners) = IdsOf(Curr.rows)
    /\ Cardinality(ListIds(A.learners)) = Len(A.learners)
    /\ A.totalLearners = Len(A.learners)
    /\ \A l \in Range(A.learners) :
         /\ Len(l.courses) = Cardinality(RowIndexes(l.id))
         /\ \A k \in RowIndexes(l.id) :
              \E j \in 1..Len(l.courses) : l.courses[j].completion = Curr.rows[k].pct

\* C16 witness: the two rows of the last snapshot share an id and differ in
\* completion; there is one record with two courses.
C16_Witness ==
  /\ Rendered /\ Len(Curr.rows) = 2
  /\ Curr.rows[1].id = Curr.rows[2].id /\ Curr.rows[1].pct # Curr.rows[2].pct
  /\ Len(A.learners) = 1 /\ A.totalLearners = 1
  /\ Len(A.learners[1].courses) = 2

\* r is total / n rounded to the nearest integer, halves upwards.
IsHalfUp(r, total, n) ==
  2 * n * r <= 2 * total + n /\ 2 * total + n < 2 * n * (r + 1)

\* The sum and the number of the completions of a learner's rows in a
\* snapshot.
RowTotal(snap, id) ==
  SumSeq([k \in 1..Len(snap.rows) |-> IF snap.rows[k].id = id THEN snap.rows[k].pct ELSE 0])
RowCount(snap, id) == Cardinality({k \in 1..Len(snap.rows) : snap.rows[k].id = id})

\* v is the per-snapshot average of a learner: the half-up mean of the rows,
\* absent (Null) or 0 without rows.
IsSnapshotAverage(v, snap, id, absent) ==
  IF RowCount(snap, id) = 0 THEN v = absent
  ELSE v # Null /\ IsHalfUp(v[1], RowTotal(snap, id), RowCount(snap, id))

\* C17: a learner's avgCompletion is the mean of the course completions
\* rounded to the nearest integer, halves upwards (50 and 51 give 51; means
\* 0.5, 1.5 and 2.5 give 1, 2 and 3), 0 without courses; every per-snapshot
\* average (week1Avg, week2Avg, recentAvgs) is rounded the same way.
C17_RoundHalfUp ==
  Rendered =>
    /\ \A l \in Range(A.learners) :
         /\ Len(l.courses) = 0 => l.avgCompletion = 0
         /\ Len(l.courses) > 0 =>
              IsHalfUp(l.avgCompletion, SumSeq(Completions(l)), Len(l.courses))
         /\ Range(Completions(l)) = {50, 51} /\ Len(l.courses) = 2 => l.avgCompletion = 51
         /\ Range(Completions(l)) = {0, 1} /\ Len(l.courses) = 2 => l.avgCompletion = 1
         /\ Range(Completions(l)) = {1, 2} /\ Len(l.courses) = 2 => l.avgCompletion = 2
         /\ Range(Completions(l)) = {2, 3} /\ Len(l.courses) = 2 => l.avgCompletion = 3
    /\ \A e \in Range(A.improvedList) \cup Range(A.supportNeeded) :
         /\ IsSnapshotAverage(e.week1Avg, Prev, e.id, Some(0))
         /\ IsSnapshotAverage(e.week2Avg, Curr, e.id, Some(0))
         /\ \A k \in 1..Len(e.recentAvgs) :
              IsSnapshotAverage(e.recentAvgs[k],
                                snapshots[Len(snapshots) - Len(e.recentAvgs) + k], e.id, Null)

\* C17 witness: a learner with courses at 50 and 51 in the last snapshot has
\* avgCompletion 51, and is listed as improved with 51 as the last average.
C17_Witness ==
  /\ Rendered /\ Len(snapshots) = 2
  /\ \E l \in Range(A.learners) :
       Completions(l) = <<50, 51>> /\ l.avgCompletion = 51
  /\ \E e \in Range(A.improvedList) :
       e.week2Avg = Some(51) /\ e.recentAvgs[Len(e.recentAvgs)] = Some(51)

\* C18: monthlyData has one Period Summary per snapshot, in snapshot order;
\* summary i (from 1) is labelled with the name of snapshot i when it has
\* one and with "Week i" otherwise, and its learners field is the number of
\* distinct ids in the snapshot.
C18_MonthlyData ==
  Rendered =>
    /\ Len(A.monthlyData) = Len(snapshots)
    /\ \A i \in 1..Len(snapshots) :
         /\ snapshots[i].name # "" => A.monthlyData[i].month = snapshots[i].name
         /\ snapshots[i].name = "" => A.monthlyData[i].month = "Week " \o ToString(i)
         /\ A.monthlyData[i].learners = Cardinality(IdsOf(snapshots[i].rows))

\* C18 witness: three snapshots, the second without a name and the others
\* named differently, with different learner counts.
C18_Witness ==
  /\ Rendered /\ Len(snapshots) = 3
  /\ snapshots[2].name = "" /\ A.monthlyData[2].month = "Week 2"
  /\ A.monthlyData[1].month = "D" /\ A.monthlyData[3].month = "A"
  /\ A.monthlyData[1].learners = 2 /\ Len(snapshots[1].rows) = 3
  /\ A.monthlyData[2].learners = 0

\* The learners of a snapshot whose rounded average lies in a set.
LearnersWithAverageIn(snap, S) ==
  {id \in IdsOf(snap.rows) : avgMap(snap.rows)[id] \in S}

\* C19: a Period Summary classifies each distinct learner once, by the
\* learner's rounded average in that snapshot (>= 100 completed, 1 to 99
\* in progress, anything else not started), so the counts add up to
\* learners; avg is the rounded mean of those averages, 0 without learners.
C19_PeriodBuckets ==
  Rendered =>
    \A i \in 1..Len(snapshots) :
      LET snap == snapshots[i]
          ps == A.monthlyData[i]
          ids == IdsOf(snap.rows)
          avgs == MapSeq(LAMBDA id : avgMap(snap.rows)[id], ObjectKeys(ids))
      IN /\ ps.completed =
              Cardinality(LearnersWithAverageIn(snap, {a \in CompletionRange : a >= 100}))
         /\ ps.inProgress =
              Cardinality(LearnersWithAverageIn(snap, 1..99))
         /\ ps.notStarted =
              Cardinality(LearnersWithAverageIn(snap, {a \in CompletionRange : a < 1}))
         /\ ps.completed + ps.inProgress + ps.notStarted = ps.learners
         /\ ps.learners = Cardinality(ids)
         /\ ids = {} => ps.avg = 0
         /\ ids # {} => IsHalfUp(ps.avg, SumSeq(avgs), Cardinality(ids))

\* C19 witness: a learner with one course below 0 and one in progress, whose
\* average is negative, counts once, as not started.
C19_Witness ==
  /\ Rendered
  /\ \E i \in 1..Len(snapshots) :
       /\ Len(snapshots[i].rows) = 2
       /\ snapshots[i].rows[1].id = snapshots[i].rows[2].id
       /\ snapshots[i].rows[1].pct = 0 - 10 /\ snapshots[i].rows[2].pct = 3
       /\ A.monthlyData[i].learners = 1 /\ A.monthlyData[i].notStarted = 1
       /\ A.monthlyData[i].inProgress = 0 /\ A.monthlyData[i].avg < 0

\* C20: failedStudents holds exactly the last-snapshot Learner Records with
\* avgCompletion < 25 and at least one course in progress; a learner with
\* average 0 and no course in progress is not in it.
C20_FailedStudents ==
  Rendered =>
    /\ Range(A.failedStudents) =
         {l \in Range(A.learners) : l.avgCompletion < 25 /\ l.inProgress > 0}
    /\ Cardinality(ListIds(A.failedStudents)) = Len(A.failedStudents)
    /\ \A l \in Range(A.learners) :
         l.avgCompletion = 0 /\ l.inProgress = 0 => l.id \notin ListIds(A.failedStudents)

\* C20 witness: one learner of the last snapshot is failed, another has
\* average 0 without a course in progress and is not.
C20_Witness ==
  /\ Rendered /\ Len(A.failedStudents) = 1
  /\ \E l \in Range(A.learners) :
       /\ l.avgCompletion = 0 /\ l.inProgress = 0
       /\ l.id \notin ListIds(A.failedStudents)

(***************************************************************************)
(* Properties of the enriched records                                      *)
(***************************************************************************)

\* C21: every entry of improvedList and supportList has avgCompletion equal
\* to week2Avg, week1Avg equal to the learner's average in the second-to-last
\* snapshot and week2Avg equal to the average in the last snapshot.
C21_EnrichedAverages ==
  (Rendered /\ Len(snapshots) >= 2) =>
    \A e \in Range(A.improvedList) \cup Range(A.supportList) \cup Range(A.supportNeeded) :
      /\ e.week1Avg = Some(V1(e.id))
      /\ e.week2Avg = Some(V2(e.id))
      /\ e.avgCompletion = e.week2Avg[1]

\* C21 witness: a learner went from 40 to 60: the entry of improvedList has
\* week1Avg 40, week2Avg 60 and avgCompletion 60.
C21_Witness ==
  /\ Rendered /\ Len(snapshots) >= 2
  /\ \E e \in Range(A.improvedList) :
       e.week1Avg = Some(40) /\ e.week2Avg = Some(60) /\ e.avgCompletion = 60

OnlyInCurr == IdsOf(Curr.rows) \ IdsOf(Prev.rows)
OnlyInPrev == IdsOf(Prev.rows) \ IdsOf(Curr.rows)

SynthesizedEntries ==
  {e \in Range(A.improvedList) \cup Range(A.supportList) \cup Range(A.supportNeeded) :
     e.id \notin IdsOf(Curr.rows)}

\* The first row of a learner in the newest snapshot that has one.
NewestRow(id) ==
  LET with == {i \in 1..Len(snapshots) : id \in IdsOf(snapshots[i].rows)}
      rows == snapshots[CHOOSE i \in with : \A j \in with : i >= j].rows
  IN rows[CHOOSE k \in 1..Len(rows) :
            rows[k].id = id /\ \A j \in 1..(k - 1) : rows[j].id # id]

\* The positions of a learner's rows in the second-to-last snapshot.
PrevRowIndexes(id) == {k \in 1..Len(Prev.rows) : Prev.rows[k].id = id}

\* C25: a learner listed in improvedList or supportList without a row in
\* the last snapshot has a synthesized record: the level is empty, name,
\* email and district are those of the newest snapshot that contains the id,
\* and the courses are the learner's rows of the last two snapshots (here,
\* of the second-to-last).
C25_SynthesizedRecord ==
  (Rendered /\ Len(snapshots) >= 2) =>
    \A e \in SynthesizedEntries :
      /\ e.level = ""
      /\ e.name = <<NewestRow(e.id).first, NewestRow(e.id).last>>
      /\ e.email = NewestRow(e.id).email
      /\ e.district = NewestRow(e.id).district
      /\ Len(e.courses) = Cardinality(PrevRowIndexes(e.id))
      /\ \A k \in PrevRowIndexes(e.id) :
           \E j \in 1..Len(e.courses) :
             /\ e.courses[j].completion = Prev.rows[k].pct
             /\ e.courses[j].title = Prev.rows[k].title
             /\ e.courses[j].status = Prev.rows[k].status

\* C25 witness: two synthesized entries. One learner was last seen two
\* snapshots back under another first name than in the first snapshot and
\* gets that newer name and no courses; another is only in the
\* second-to-last snapshot and gets its row as a course.
C25_Witness ==
  /\ Rendered /\ Len(snapshots) = 4
  /\ \E e \in SynthesizedEntries :
       /\ e.id \in IdsOf(snapshots[1].rows) /\ e.id \in IdsOf(snapshots[2].rows)
       /\ snapshots[1].rows[CHOOSE k \in 1..Len(snapshots[1].rows) :
                              snapshots[1].rows[k].id = e.id].first # e.name[1]
       /\ e.id \notin IdsOf(Prev.rows)
       /\ e.courses = <<>> /\ e.level = ""
  /\ \E e \in SynthesizedEntries : Len(e.courses) = 1

\* C29: for every non-empty snapshot sequence the last Period Summary
\* agrees with the headline figures: its learners is totalLearners, its avg
\* is averageCompletion, and the avgCompletion of every learner of the last
\* snapshot is the week2Avg the comparison uses for that learner.
C29_LastSummaryAgrees ==
  Rendered =>
    /\ A.monthlyData[Len(snapshots)].learners = A.totalLearners
    /\ A.monthlyData[Len(snapshots)].avg = A.averageCompletion
    /\ \A l \in Range(A.learners) :
         /\ l.avgCompletion = avgMap(Curr.rows)[l.id]
         /\ \A e \in Range(A.improvedList) \cup Range(A.supportNeeded) :
              e.id = l.id => e.week2Avg = Some(l.avgCompletion)

\* C29 witness: the last snapshot has a learner with courses at 50 and 51
\* and a learner with one course at 50: 2 learners, average 51 in the
\* headline and in the last summary, and the first learner is compared
\* with week2Avg 51.
C29_Witness ==
  /\ Rendered /\ Len(snapshots) >= 2 /\ Curr = ReportD
  /\ A.totalLearners = 2 /\ A.monthlyData[Len(snapshots)].learners = 2
  /\ A.averageCompletion = 51 /\ A.monthlyData[Len(snapshots)].avg = 51
  /\ \E e \in Range(A.improvedList) : e.id = 2 /\ e.week2Avg = Some(51)

(***************************************************************************)
(* Properties of the CSV export                                            *)
(***************************************************************************)

\* The learners of the last export, in row order.
Exported == ExportList(analytics, csv[1].listModalType, csv[1].selectedIds)

\* The known values of a learner's recentAvgs, oldest first.
KnownRecent(l) ==
  IF l.recentAvgs = Null THEN <<>>
  ELSE LET idx == FilterSeq(LAMBDA i : l.recentAvgs[i] # Null,
                            [i \in 1..Len(l.recentAvgs) |-> i])
       IN [k \in 1..Len(idx) |-> l.recentAvgs[idx[k]][1]]

\* The delta of the known values, with a sign for a rise when signed.
DeltaText(known, signed) ==
  LET d == known[Len(known)] - known[1]
  IN IF known = <<>> THEN ""
     ELSE IF signed /\ d > 0 THEN "+" \o ToString(d) \o "%" ELSE ToString(d) \o "%"

\* C23: in the CSV export the delta of a learner is the last known
\* recentAvgs value minus the first known one, written "+n%" when positive
\* and "n%" otherwise, and empty without a known recent average.
C23_DeltaSigned ==
  csv # Null =>
    /\ Len(csv[1].rows) = Len(Exported)
    /\ \A i \in 1..Len(Exported) :
         csv[1].rows[i].delta = DeltaText(KnownRecent(Exported[i]), TRUE)

(***************************************************************************)
(* Properties of the start-up                                              *)
(***************************************************************************)

\* Storage holds no usable snapshot list and a non-empty legacy row list.
LegacyOnly(st) ==
  /\ st.snapshots = Null \/ Len(st.snapshots[1].items) = 0
  /\ st.data # Null /\ Len(st.data[1]) > 0

\* snaps is one snapshot named "Week 1" with the stored rows, normalized, in
\* their stored order.
IsWeekOneOf(snaps, stored) ==
  /\ Len(snaps) = 1
  /\ snaps[1].name = "Week 1"
  /\ Len(snaps[1].rows) = Len(stored)
  /\ \A k \in 1..Len(stored) :
       [snaps[1].rows[k] EXCEPT !.obj = <<0, 0, 0>>] = normalizeRow(stored[k])

\* C26: on load, with no stored snapshot list and a non-empty legacy row
\* list, the snapshot sequence becomes exactly one snapshot named "Week 1"
\* that holds those rows in their stored order.
C26_LegacyLoad ==
  [][/\ (pc = "mount" /\ LegacyOnly(storage)) =>
          (queued' # Null /\ IsWeekOneOf(queued'[1], storage.data[1]))
     /\ (pc = "mounted" /\ queued # Null) => snapshots' = queued[1]]_vars

\* C26 witness: the mount has settled with the one snapshot "Week 1" of two
\* legacy rows, the second of which had its id stored as text.
C26_Witness ==
  /\ pc = "idle" /\ Len(snapshots) = 1 /\ snapshots[1].name = "Week 1"
  /\ Len(snapshots[1].rows) = 2
  /\ snapshots[1].rows[1].id = 1 /\ snapshots[1].rows[1].pct = 40
  /\ snapshots[1].rows[2].id = 2 /\ snapshots[1].rows[2].first = "Bob"

\* Storage holds a non-empty snapshot list or a non-empty legacy row list.
HasSavedData(st) ==
  \/ st.snapshots # Null /\ Len(st.snapshots[1].items) > 0
  \/ st.data # Null /\ Len(st.data[1]) > 0

\* The row lists of the saved data, one per stored snapshot.
StoredRows(st) ==
  IF st.snapshots # Null /\ Len(st.snapshots[1].items) > 0
  THEN [i \in 1..Len(st.snapshots[1].items) |->
          IF st.snapshots[1].fmt = "arrays" THEN st.snapshots[1].items[i]
          ELSE st.snapshots[1].items[i].rows]
  ELSE <<st.data[1]>>

\* snaps holds the stored row lists, normalized, in their stored order.
HoldsStoredRows(snaps, stored) ==
  /\ Len(snaps) = Len(stored)
  /\ \A i \in 1..Len(stored) :
       /\ Len(snaps[i].rows) = Len(stored[i])
       /\ \A k \in 1..Len(stored[i]) :
            [snaps[i].rows[k] EXCEPT !.obj = <<0, 0, 0>>] = normalizeRow(stored[i][k])

ImportStepWithoutCommit ==
  /\ imports' # imports
  /\ ~(Len(imports') = Len(imports) - 1 /\ lastOp'.kind = "import")

\* C28: an import is all-or-nothing: when reading or decoding one of its
\* files fails no snapshot of it is added; the snapshot sequence, the
\* flattened rows, the import summary and the saved entry are left as they
\* were by every step of the import, the failing one included.
C28_AllOrNothing ==
  [][ImportStepWithoutCommit =>
       /\ snapshots' = snapshots /\ data' = data /\ analytics' = analytics
       /\ importSummary' = importSummary /\ storage' = storage]_vars

\* C28 witness: the only import so far read its first file and failed on
\* the second (no import committed and nothing was cleared, as no banner
\* timer was ever set); the loaded snapshot is all there is.
C28_Witness ==
  /\ pc = "idle" /\ started = 1 /\ imports = <<>>
  /\ timerRef = Null /\ importSummary = Null
  /\ Len(snapshots) = 1 /\ snapshots[1].name = "Week 1"
  /\ Len(data) = 2
  /\ storage.snapshots = Some(SnapshotsToJson(snapshots))


\* ---------------------------------------------------------------------
\* Properties of the banner timer
\* ---------------------------------------------------------------------

\* The timer of the banner on display is pending, and no other timer is.
BannerTimerPending ==
  timers = (IF importSummary = Null THEN {} ELSE {timerRef[1]})

\* A step of an import or of Clear Stored Data that schedules a timer.
SchedulesTimer == timerRef' # timerRef

\* A pending timer stops being pending: it fired or it was cancelled.
TimerEnds == timers \ timers' # {}

\* C30 (as stated) -- every banner that is not dismissed by hand is dismissed
\* by the timer scheduled for it: a timer stops being pending only in a step
\* that dismisses the banner.  Violated: a later import or Clear Stored Data
\* cancels the timer of the banner on display and replaces that banner.
C30_EveryTimerDismisses ==
  [][TimerEnds => importSummary' = Null]_vars

\* C30 (amended) -- at most one banner timer is pending at any time, and it is
\* the one scheduled together with the banner on display; an import or clear
\* that shows a banner cancels every earlier timer, so an earlier timer never
\* dismisses a later banner; a timer ends only by dismissing its banner or by
\* being replaced together with it; and every banner on display is eventually
\* dismissed or replaced, the last one by its own timer unless dismissed by hand.
C30_BannerTimer ==
  /\ [](Cardinality(timers) <= 1 /\ BannerTimerPending)
  /\ [][SchedulesTimer =>
          /\ importSummary' # Null
          /\ timerRef'[1] \notin timers
          /\ timers' = {timerRef'[1]}]_vars
  /\ [][TimerEnds => importSummary' = Null \/ SchedulesTimer]_vars
  /\ (importSummary # Null) ~> (importSummary = Null)

\* The banner of a second import on display: the first banner's timer 1 was
\* cancelled and only timer 2 is pending.
C30_Witness ==
  /\ importSummary # Null
  /\ lastOp.kind = "import"
  /\ timerRef = Some(2)
  /\ timers = {2}

====
